---- MODULE Spec2Model ----
(***************************************************************************)
(* Run-advancement state machine of the ManyChat <-> OpenAI relay.         *)
(*                                                                         *)
(* One inbound turn enters through main.py (advance_convo and the          *)
(* process_* functions of main.py).  A persona switch (change_assistant,   *)
(* actions.py) re-enters through actions.py's own advance_convo, so every  *)
(* later run of the turn is handled by the process_* functions of          *)
(* actions.py.  The variable `module` records which file's functions are   *)
(* handling the current run.                                               *)
(*                                                                         *)
(* Every function of the chain wraps its body in try/except Exception and  *)
(* returns normally after logging, and no caller does anything after the   *)
(* call it awaits returns; hence every exit, normal or exceptional, of a   *)
(* nested call ends the whole turn (pc = "done").                          *)
(*                                                                         *)
(* Text is a sequence of code points.                                      *)
(***************************************************************************)
EXTENDS Integers, Sequences, FiniteSets, TLC

VARIABLES
    pc,             \* position of the background task
    module,         \* "main" | "actions": whose process_* functions run
    turn,           \* convo_data of the current advance_convo call
    runs,           \* number of create_and_poll calls made by the turn
    run_response,   \* the Run returned by create_and_poll
    function_args,  \* json.loads(tool_call.function.arguments)
    tool_call_id,   \* tool_call.id of the decoded tool call
    checks,         \* attempt + 1 of the action-wait loop
    slept,          \* seconds slept by the action-wait loop of this run
    run_status,     \* status of the last Run retrieved by the wait loop
                    \* (the five above are locals of process_function_response:
                    \*  a nested advance_convo starts with fresh ones)
    extracted,      \* ai_messages[-1].content[0].text.value
    ai_content,     \* the text handed to send_message
    calls,          \* the outbound calls made for the current run, in order
    switches,       \* the set_custom_field call that ended each earlier run
    sent,           \* number of send_message calls made by the turn
    logs,           \* the lines log() printed for the current run, in order
    data,           \* the inbound request body of generate_response
    http_response,  \* what the client of generate_response receives
    tasks           \* background_tasks: the convo_data of each scheduled task

vars == <<pc, module, turn, runs, run_response, function_args, tool_call_id,
          checks, slept, run_status, extracted, ai_content, calls, switches,
          sent, logs, data, http_response, tasks>>

----------------------------------------------------------------------------
(* Bounds of the model *)

MaxRuns == 3
MaxLen == 5
MaxToolCalls == 2

(* Program constants *)

max_checks == 6
SleepSeconds == 5
OpenMarker == 12304
CloseMarker == 12305

----------------------------------------------------------------------------
(* Values *)

None == "None"
NoRun == [id |-> 0, status |-> None, tool_calls |-> <<>>]
NoArgs == [k \in {} |-> None]
NoText == <<>>

Statuses ==
    {"queued", "in_progress", "completed", "requires_action", "failed", "expired"}

ThreadIds == {"thread_1", "thread_2"}
StartAssistants == {"asst_start"}
FilterTags == {"demo filter", "vip filter"}
Subscribers == {"sub_1", "sub_2"}

Turns ==
    [thread_id : ThreadIds, assistant_id : StartAssistants,
     bot_filter_tag : FilterTags, manychat_id : Subscribers]

(* Process environment read by change_assistant: one variable is unset and *)
(* one is set to the empty string.                                         *)
Getenv(name) ==
    CASE name = "Italian_ASST" -> "asst_Italian"
      [] name = "ecommerce_ASST" -> None
      [] name = "GuidedWalkthrough_ASST" -> "asst_Guided"
      [] name = "ManualWalkthrough_ASST" -> "asst_Manual"
      [] name = "HighTicket_ASST" -> ""
      [] name = "Enagic_ASST" -> "asst_Enagic"
      [] name = "mainMenu_ASST" -> "asst_mainMenu"
      [] OTHER -> None

RegistryKeys ==
    {"Italian", "ecommerce", "GuidedWalkthrough", "ManualWalkthrough",
     "HighTicket", "Enagic", "mainMenu"}

(* assistant_map.get(pathway) *)
AssistantMap(pathway) ==
    CASE pathway = "Italian" -> Getenv("Italian_ASST")
      [] pathway = "ecommerce" -> Getenv("ecommerce_ASST")
      [] pathway = "GuidedWalkthrough" -> Getenv("GuidedWalkthrough_ASST")
      [] pathway = "ManualWalkthrough" -> Getenv("ManualWalkthrough_ASST")
      [] pathway = "HighTicket" -> Getenv("HighTicket_ASST")
      [] pathway = "Enagic" -> Getenv("Enagic_ASST")
      [] pathway = "mainMenu" -> Getenv("mainMenu_ASST")
      [] OTHER -> None

(* a test for None instead of truthiness *)
TruthyNotNone(v) == v # None

(* Python truthiness of an optional string: `if assistant_id:` *)
Truthy(v) == v # None /\ v # ""

----------------------------------------------------------------------------
(* Tool calls requested by a run *)

ScenarioInputs == {"Italian", "mainMenu", "ecommerce", "HighTicket", "unknown-key"}

ArgObjects ==
    {[scenario |-> s] : s \in ScenarioInputs}
    \cup {[endDemo |-> "true"], [endBot |-> "true"], [note |-> "hello"],
          [scenario |-> "Italian", endDemo |-> "true"]}

(* tool_call.function.arguments: a JSON text, well-formed or not *)
FirstArguments ==
    {[json_ok |-> TRUE, obj |-> o] : o \in ArgObjects}
    \cup {[json_ok |-> FALSE, obj |-> NoArgs]}

(* the further tool calls of a run ask for another persona *)
RestArguments ==
    {[json_ok |-> TRUE, obj |-> [scenario |-> "mainMenu"]]}

ToolCallId(i) == IF i = 1 THEN "call_1" ELSE IF i = 2 THEN "call_2" ELSE "call_n"

ToolCallLists ==
    {<<>>}
    \cup UNION {
        { [i \in 1..n |-> [id |-> ToolCallId(i),
                           arguments |-> IF i = 1 THEN first ELSE rest[i]]] :
            first \in FirstArguments, rest \in [2..n -> RestArguments] } :
        n \in 1..MaxToolCalls }

(* What create_and_poll can do: raise, return nothing, or return a Run *)
CreateOutcomes(id) ==
    {[kind |-> "raised", run |-> NoRun], [kind |-> "none", run |-> NoRun]}
    \cup {[kind |-> "run", run |-> [id |-> id, status |-> s, tool_calls |-> <<>>]] :
            s \in Statuses \ {"requires_action"}}
    \cup {[kind |-> "run",
           run |-> [id |-> id, status |-> "requires_action", tool_calls |-> tc]] :
            tc \in ToolCallLists}

(* a decoder that takes the last tool call of the list *)
LastToolCall(tool_calls) == tool_calls[Len(tool_calls)]

(* required_action.submit_tool_outputs.tool_calls[0] *)
FirstToolCall(tool_calls) == tool_calls[1]

(* json.loads(arguments) *)
JsonLoads(arguments) == arguments.obj

----------------------------------------------------------------------------
(* Message texts *)

Alphabet == {97, 98, OpenMarker, CloseMarker}

Texts == UNION {[1..n -> Alphabet] : n \in 0..MaxLen}

(* the texts the assistant answers with in the turn-level specification:   *)
(* plain, with a citation, and with the markers in reverse order           *)
SampleTexts ==
    {<<97, 98>>, <<97, OpenMarker, 98, CloseMarker, 98>>, <<CloseMarker, 98, OpenMarker>>}

(* messages.list: raise, or a page whose data is empty, one message, or an *)
(* earlier message followed by the last one                                *)
EarlierText == <<98>>

ListOutcomes(T) ==
    {[kind |-> "raised", data |-> <<>>], [kind |-> "returned", data |-> <<>>]}
    \cup {[kind |-> "returned", data |-> <<t>>] : t \in T}
    \cup {[kind |-> "returned", data |-> <<EarlierText, t>>] : t \in T}

Contains(s, c) == \E i \in 1..Len(s) : s[i] = c

(* str.find: 0-based index of the first occurrence, -1 when absent *)
Find(s, c) ==
    IF Contains(s, c)
    THEN (CHOOSE i \in 1..Len(s) : s[i] = c /\ \A j \in 1..(i - 1) : s[j] # c) - 1
    ELSE -1

(* a slice bound as Python clamps it: negative bounds count from the end *)
SliceIndex(s, n) ==
    IF n < 0 THEN (IF Len(s) + n < 0 THEN 0 ELSE Len(s) + n)
    ELSE (IF n < Len(s) THEN n ELSE Len(s))

(* s[:n] and s[n:] *)
SliceTo(s, n) == SubSeq(s, 1, SliceIndex(s, n))
SliceFrom(s, n) == SubSeq(s, SliceIndex(s, n) + 1, Len(s))

(* the rule without the + 1 that skips the closing marker *)
SanitizeKeepingCloseMarker(s) ==
    IF Contains(s, OpenMarker) /\ Contains(s, CloseMarker)
    THEN SliceTo(s, Find(s, OpenMarker)) \o SliceFrom(s, Find(s, CloseMarker))
    ELSE s

(* the rule applied when either marker is present *)
SanitizeOnEitherMarker(s) ==
    IF Contains(s, OpenMarker) \/ Contains(s, CloseMarker)
    THEN SliceTo(s, Find(s, OpenMarker)) \o SliceFrom(s, Find(s, CloseMarker) + 1)
    ELSE s

(* the citation-stripping rule of process_message_response *)
Sanitize(s) ==
    IF Contains(s, OpenMarker) /\ Contains(s, CloseMarker)
    THEN SliceTo(s, Find(s, OpenMarker)) \o SliceFrom(s, Find(s, CloseMarker) + 1)
    ELSE s

----------------------------------------------------------------------------
(* ManychatAPI._request *)

StatusCodes == {200, 404}
Bodies == {"success", "error", "not_json"}

Responses ==
    {[transport |-> "error", status_code |-> 0, body |-> "not_json"]}
    \cup [transport : {"ok"}, status_code : StatusCodes, body : Bodies]

(* a test that lets redirects through *)
IsSuccessBelow400(resp) == resp.status_code >= 200 /\ resp.status_code <= 399

(* response.is_success *)
IsSuccess(resp) == resp.status_code >= 200 /\ resp.status_code <= 299

(* _request without the test of the embedded status field *)
RequestIgnoringBodyStatus(method, resp) ==
    IF resp.transport = "error" THEN FALSE
    ELSE IF ~IsSuccess(resp) THEN FALSE
    ELSE IF resp.body = "not_json" THEN FALSE
    ELSE TRUE

(* TRUE iff _request returns response_data (truthy), FALSE iff it returns None *)
Request(method, resp) ==
    IF resp.transport = "error" THEN FALSE
    ELSE IF ~IsSuccess(resp) THEN FALSE
    ELSE IF resp.body = "not_json" THEN FALSE
    ELSE IF method = "POST" /\ resp.body # "success" THEN FALSE
    ELSE TRUE

(* one entry of the call history *)
Call(op, target, arg, resp, ok) ==
    [op |-> op, run |-> runs, target |-> target, arg |-> arg, resp |-> resp, ok |-> ok]

----------------------------------------------------------------------------
(* Small decisions of the code *)

(* an advance_convo without the test of the returned value *)
RunFailedOnlyOnRaise(out) == out.kind = "raised"

(* `if not run_response: raise` of advance_convo *)
RunFailed(out) == out.kind # "run"

(* a loop that never breaks *)
LoopNeverBreaks(status) == FALSE

(* `if run_status.status == "completed": break` *)
LoopBreaks(status) == status = "completed"

(* a loop whose else clause is never taken *)
LoopNeverExhausted(attempts) == FALSE

(* the for loop is exhausted: its else clause runs *)
LoopExhausted(attempts) == attempts = max_checks

(* an else clause that logs and falls through to the dispatch *)
AfterTimeoutFallsThrough == "dispatch_action"

(* the `return` of the loop's else clause *)
AfterTimeout == "done"

(* a delivery that is tried again when it failed *)
AfterSendRetrying(response) == IF response THEN "done" ELSE "send_message"

(* process_message_response ignores the result of send_message and returns *)
AfterSend(response) == "done"

(* an end_bot that gives up when remove_tag failed *)
AfterRemoveTagChecked(response) == IF response THEN "end_bot_add_tag" ELSE "done"

(* end_bot ignores the result of remove_tag *)
AfterRemoveTag(response) == "end_bot_add_tag"

(* where process_function_response goes after submit_tool_outputs returned *)
AfterSubmit(m) == IF m = "actions" THEN "wait_for_run" ELSE "dispatch_action"

(* a process_run_response that tests only for requires_action *)
RunBranchDeliveringOthers(status) ==
    IF status = "requires_action" THEN "process_function_response"
    ELSE "process_message_response"

(* the if/elif/else of process_run_response on run_response.status *)
RunBranch(status) ==
    IF status = "completed" THEN "process_message_response"
    ELSE IF status = "requires_action" THEN "process_function_response"
    ELSE "failed"

(* an except clause that logs and raises again *)
OnExceptionReraise(function) == "raised"

(* `except Exception as e: await log(...)`: the function named returns     *)
(* normally, and its caller has nothing left to do                         *)
OnException(function) == "done"

(* the if/elif/else on the keys of function_args *)
Classify(args) ==
    IF "scenario" \in DOMAIN args THEN "change_assistant"
    ELSE IF "endDemo" \in DOMAIN args THEN "end_demo"
    ELSE "unknown"

(* a restart that keeps the assistant the turn came in with *)
RestartTurnSameAssistant(thread_id, assistant_id, manychat_id) ==
    [thread_id |-> thread_id, assistant_id |-> "asst_start",
     bot_filter_tag |-> "demo filter", manychat_id |-> manychat_id]

(* convo_data of the recursive advance_convo call of change_assistant *)
RestartTurn(thread_id, assistant_id, manychat_id) ==
    [thread_id |-> thread_id, assistant_id |-> assistant_id,
     bot_filter_tag |-> "demo filter", manychat_id |-> manychat_id]

----------------------------------------------------------------------------
(* The inbound request of generate_response *)

required_fields == <<"thread_id", "assistant_id", "bot_filter_tag", "manychat_id">>

FieldNames == {required_fields[i] : i \in DOMAIN required_fields}

(* a JSON object is the sequence of its members, in the order received *)
Member(k, v) == [key |-> k, value |-> v]

(* the body that carries the four fields of a turn, in the documented order *)
DataOf(fields) ==
    [kind |-> "object",
     members |-> [i \in DOMAIN required_fields |->
                    Member(required_fields[i], fields[required_fields[i]])]]

(* what validate_request_data returns for a rejected body *)
NoFields == [f \in FieldNames |-> None]

Absent == "absent"

ValidValue(f) ==
    CASE f = "thread_id" -> "thread_1"
      [] f = "assistant_id" -> "asst_start"
      [] f = "bot_filter_tag" -> "vip filter"
      [] f = "manychat_id" -> "sub_1"

(* a field is left out, null, empty, the text "null", or a usable value *)
FieldInputs(f) == {Absent, None, "", "null", ValidValue(f)}

(* orders in which the members of the body arrive *)
Orders == {<<1, 2, 3, 4>>, <<4, 3, 2, 1>>, <<2, 4, 1, 3>>}

Present(m) == m.value # Absent

Payload(order, v) ==
    [kind |-> "object",
     members |-> SelectSeq([i \in DOMAIN order |->
                              Member(required_fields[order[i]],
                                     v[required_fields[order[i]]])],
                           Present)]

Payloads ==
    {Payload(o, v) : o \in Orders,
                     v \in {w \in [FieldNames -> UNION {FieldInputs(f) : f \in FieldNames}] :
                                \A f \in FieldNames : w[f] \in FieldInputs(f)}}

(* request.json() raises on a body that is no JSON; a JSON array or number *)
(* has no .get                                                            *)
RequestBodies ==
    Payloads \cup {[kind |-> "bad_json", members |-> <<>>],
                   [kind |-> "not_object", members |-> <<>>]}

(* data.get(key) *)
Get(d, key) ==
    IF \E i \in DOMAIN d.members : d.members[i].key = key
    THEN d.members[CHOOSE i \in DOMAIN d.members : d.members[i].key = key].value
    ELSE None

(* a test that only looks for null *)
MissingOnlyNone(v) == v = None

(* `not fields[field] or fields[field] in ["", "null", None]` *)
Missing(v) == v \in {None, "", "null"}

(* the fields taken by position in the body *)
FieldsByPosition(d) ==
    [f \in FieldNames |->
        LET i == CHOOSE j \in DOMAIN required_fields : required_fields[j] = f
        IN IF i \in DOMAIN d.members THEN d.members[i].value ELSE None]

(* fields = {field: data.get(field) for field in required_fields} *)
Fields(d) == [f \in FieldNames |-> Get(d, f)]

(* validate_request_data: None (NoFields) when data has no .get or a field *)
(* is missing, else the four fields                                       *)
ValidateRequestData(d) ==
    IF d.kind # "object" THEN NoFields
    ELSE IF \E f \in FieldNames : Missing(Fields(d)[f]) THEN NoFields
    ELSE Fields(d)

(* the except clause of generate_response: its log line reads              *)
(* validated_fields.get before {"status": "error"} is returned; the name   *)
(* is unbound when request.json() raised and None when validation failed,  *)
(* and either way the exception raised by the except clause leaves the     *)
(* handler                                                                 *)
ExceptClause(validated_fields) ==
    IF validated_fields \in {"unbound", "None"} THEN "unhandled" ELSE "error"

----------------------------------------------------------------------------
(* State after the endpoint scheduled advance_convo with validated fields *)

Init ==
    /\ pc = "advance_convo"
    /\ module = "main"
    /\ turn \in Turns
    /\ runs = 0
    /\ run_response = NoRun
    /\ function_args = NoArgs
    /\ tool_call_id = None
    /\ checks = 0
    /\ slept = 0
    /\ run_status = None
    /\ extracted = NoText
    /\ ai_content = NoText
    /\ calls = <<>>
    /\ switches = <<>>
    /\ sent = 0
    /\ logs = <<>>
    /\ data = DataOf(turn)
    /\ http_response = "success"
    /\ tasks = <<turn>>

(* advance_convo: create_and_poll, then process_run_response.  The call   *)
(* opens the frames of a new run: the locals of process_function_response *)
(* are fresh, and the per-run histories start over with the call that is  *)
(* made here (the set_custom_field call that led here goes to switches).  *)
AdvanceConvo ==
    /\ pc = "advance_convo"
    /\ runs < MaxRuns
    /\ \E out \in CreateOutcomes(runs + 1) :
        /\ runs' = runs + 1
        /\ calls' = <<[op |-> "create_and_poll", run |-> runs + 1,
                      target |-> turn.thread_id, arg |-> turn.assistant_id,
                      resp |-> IF out.kind = "run" THEN out.run.status ELSE out.kind,
                      ok |-> ~RunFailed(out)]>>
        /\ switches' = IF calls = <<>> THEN switches
                       ELSE Append(switches, calls[Len(calls)])
        /\ IF RunFailed(out)
           THEN /\ run_response' = NoRun
                /\ logs' = <<"advance_convo -- Unexpected error">>
                /\ pc' = OnException("advance_convo")
           ELSE /\ run_response' = out.run
                /\ logs' = <<>>
                /\ pc' = "process_run_response"
    /\ function_args' = NoArgs
    /\ tool_call_id' = None
    /\ checks' = 0
    /\ slept' = 0
    /\ run_status' = None
    /\ UNCHANGED <<module, turn, extracted, ai_content, sent>>
    /\ UNCHANGED <<data, http_response, tasks>>

(* process_run_response: branch on run_response.status.  The else branch  *)
(* passes the Run object to json.dumps, which raises; the except clause   *)
(* logs the error.                                                        *)
ProcessRunResponse ==
    /\ pc = "process_run_response"
    /\ IF RunBranch(run_response.status) = "failed"
       THEN /\ pc' = OnException("process_run_response")
            /\ logs' = Append(logs, "process_run_response -- Unexpected error")
       ELSE /\ pc' = RunBranch(run_response.status)
            /\ logs' = logs
    /\ UNCHANGED <<module, turn, runs, run_response, function_args, tool_call_id,
                   checks, slept, run_status, extracted, ai_content, calls,
                   switches, sent>>
    /\ UNCHANGED <<data, http_response, tasks>>

(* process_message_response up to the sanitized text, the last message    *)
(* being drawn from T                                                     *)
ProcessMessageResponse(T) ==
    /\ pc = "process_message_response"
    /\ \E out \in ListOutcomes(T) :
        /\ calls' = Append(calls,
                Call("messages.list", turn.thread_id, run_response.id, out.kind,
                     out.kind = "returned"))
        /\ IF out.kind = "raised"
           THEN /\ logs' = Append(logs, "Error processing AI message response")
                /\ pc' = OnException("process_message_response")
                /\ UNCHANGED <<extracted, ai_content>>
           ELSE IF out.data = <<>>
           THEN /\ logs' = Append(logs, "No messages found in run response")
                /\ pc' = "done"
                /\ UNCHANGED <<extracted, ai_content>>
           ELSE /\ extracted' = out.data[Len(out.data)]
                /\ ai_content' = Sanitize(out.data[Len(out.data)])
                /\ logs' = logs
                /\ pc' = "send_message"
    /\ UNCHANGED <<module, turn, runs, run_response, function_args, tool_call_id,
                   checks, slept, run_status, switches, sent>>
    /\ UNCHANGED <<data, http_response, tasks>>

ListMessages == ProcessMessageResponse(SampleTexts)

ListAnyMessages == ProcessMessageResponse(Texts)

(* mc_api.send_message(manychat_id, ai_content); the result is ignored *)
SendMessage ==
    /\ pc = "send_message"
    /\ \E resp \in Responses :
        /\ calls' = Append(calls,
                Call("send_message", turn.manychat_id, ai_content, resp,
                     Request("POST", resp)))
        /\ logs' = IF Request("POST", resp) THEN logs
                   ELSE Append(logs, "Manychat API --- send_message Failed")
        /\ pc' = AfterSend(Request("POST", resp))
    /\ sent' = sent + 1
    /\ UNCHANGED <<module, turn, runs, run_response, function_args, tool_call_id,
                   checks, slept, run_status, extracted, ai_content, switches>>
    /\ UNCHANGED <<data, http_response, tasks>>

(* process_function_response: tool_calls[0] and json.loads *)
DecodeToolCall ==
    /\ pc = "process_function_response"
    /\ IF Len(run_response.tool_calls) = 0
       THEN /\ logs' = Append(logs, "Error processing function response")
            /\ pc' = OnException("process_function_response")
            /\ UNCHANGED <<function_args, tool_call_id>>
       ELSE IF ~FirstToolCall(run_response.tool_calls).arguments.json_ok
       THEN /\ logs' = Append(logs, "Error processing function response")
            /\ pc' = OnException("process_function_response")
            /\ UNCHANGED <<function_args, tool_call_id>>
       ELSE /\ function_args' = JsonLoads(FirstToolCall(run_response.tool_calls).arguments)
            /\ tool_call_id' = FirstToolCall(run_response.tool_calls).id
            /\ logs' = logs
            /\ pc' = "submit_tool_outputs"
    /\ UNCHANGED <<module, turn, runs, run_response, checks, slept, run_status,
                   extracted, ai_content, calls, switches, sent>>
    /\ UNCHANGED <<data, http_response, tasks>>

(* submit_tool_outputs with the fixed output "success" *)
SubmitToolOutputs ==
    /\ pc = "submit_tool_outputs"
    /\ \E ok \in BOOLEAN :
        /\ calls' = Append(calls,
                Call("submit_tool_outputs", turn.thread_id, tool_call_id,
                     IF ok THEN "accepted" ELSE "raised", ok))
        /\ IF ok
           THEN /\ pc' = AfterSubmit(module)
                /\ logs' = logs
           ELSE /\ pc' = OnException("process_function_response")
                /\ logs' = Append(logs, "Error processing function response")
    /\ checks' = 0
    /\ slept' = 0
    /\ UNCHANGED <<module, turn, runs, run_response, function_args, tool_call_id,
                   run_status, extracted, ai_content, switches, sent>>
    /\ UNCHANGED <<data, http_response, tasks>>

(* one iteration of the action-wait loop of actions.py, with the loop's   *)
(* else clause when the iteration was the last                            *)
WaitForRun ==
    /\ pc = "wait_for_run"
    /\ checks < max_checks
    /\ slept' = slept + SleepSeconds
    /\ checks' = checks + 1
    /\ \E out \in Statuses \cup {"raised"} :
        /\ calls' = Append(calls,
                Call("retrieve", turn.thread_id, run_response.id,
                     IF out = "raised" THEN "raised"
                     ELSE IF out = "completed" THEN "completed" ELSE "not_completed",
                     out # "raised"))
        /\ IF out = "raised"
           THEN /\ run_status' = run_status
                /\ logs' = Append(logs, "Error processing function response")
                /\ pc' = OnException("process_function_response")
           ELSE /\ run_status' = out
                /\ IF LoopBreaks(out)
                   THEN /\ logs' = Append(logs, "Function status check")
                        /\ pc' = "dispatch_action"
                   ELSE IF LoopExhausted(checks + 1)
                   THEN /\ logs' = logs \o <<"Function status check",
                                             "Function did not complete">>
                        /\ pc' = AfterTimeout
                   ELSE /\ logs' = Append(logs, "Function status check")
                        /\ pc' = "wait_for_run"
    /\ UNCHANGED <<module, turn, runs, run_response, function_args, tool_call_id,
                   extracted, ai_content, switches, sent>>
    /\ UNCHANGED <<data, http_response, tasks>>

(* the if/elif/else that selects the action.  end_demo is not defined in  *)
(* either file: the call raises NameError, which the except clause logs.  *)
DispatchAction ==
    /\ pc = "dispatch_action"
    /\ IF Classify(function_args) = "change_assistant"
       THEN pc' = "change_assistant" /\ logs' = logs
       ELSE IF Classify(function_args) = "end_demo"
       THEN /\ pc' = OnException("process_function_response")
            /\ logs' = Append(logs, "Error processing function response")
       ELSE /\ pc' = "done"
            /\ logs' = Append(logs, "Unknown function response")
    /\ UNCHANGED <<module, turn, runs, run_response, function_args, tool_call_id,
                   checks, slept, run_status, extracted, ai_content, calls,
                   switches, sent>>
    /\ UNCHANGED <<data, http_response, tasks>>

(* change_assistant: registry lookup, set_custom_field, recursive         *)
(* advance_convo of actions.py                                            *)
ChangeAssistant ==
    /\ pc = "change_assistant"
    /\ LET assistant_id == AssistantMap(function_args["scenario"]) IN
       IF Truthy(assistant_id)
       THEN \E resp \in Responses :
            /\ calls' = Append(calls,
                    Call("set_custom_field", turn.manychat_id,
                         [field |-> "assistant_id", value |-> assistant_id],
                         resp, Request("POST", resp)))
            /\ IF Request("POST", resp)
               THEN /\ logs' = Append(logs, "Switch to")
                    /\ turn' = RestartTurn(turn.thread_id, assistant_id,
                                           turn.manychat_id)
                    /\ module' = "actions"
                    /\ pc' = "advance_convo"
               ELSE /\ logs' = Append(logs, "Manychat API --- set_custom_field Failed")
                    /\ pc' = "done"
                    /\ UNCHANGED <<turn, module>>
       ELSE /\ pc' = "done"
            /\ UNCHANGED <<turn, module, calls, logs>>
    /\ UNCHANGED <<runs, run_response, function_args, tool_call_id, checks, slept,
                   run_status, extracted, ai_content, switches, sent>>
    /\ UNCHANGED <<data, http_response, tasks>>

Next ==
    \/ AdvanceConvo
    \/ ProcessRunResponse
    \/ ListMessages
    \/ SendMessage
    \/ DecodeToolCall
    \/ SubmitToolOutputs
    \/ WaitForRun
    \/ DispatchAction
    \/ ChangeAssistant

Spec == Init /\ [][Next]_vars

(* The turn under its scheduling: the event loop resumes the task whenever *)
(* the call it awaits has returned or raised, so a step that can be taken  *)
(* is eventually taken.                                                    *)
LiveSpec == Init /\ [][Next]_vars /\ WF_vars(Next)

----------------------------------------------------------------------------
(* The endpoint in front of the turn: POST /generateResponse with any body. *)

EndpointInit ==
    /\ pc = "generate_response"
    /\ module = "main"
    /\ turn = NoFields
    /\ runs = 0
    /\ run_response = NoRun
    /\ function_args = NoArgs
    /\ tool_call_id = None
    /\ checks = 0
    /\ slept = 0
    /\ run_status = None
    /\ extracted = NoText
    /\ ai_content = NoText
    /\ calls = <<>>
    /\ switches = <<>>
    /\ sent = 0
    /\ logs = <<>>
    /\ data \in RequestBodies
    /\ http_response = None
    /\ tasks = <<>>

(* generate_response.  The HTTPException raised for a rejected body is an  *)
(* Exception, so the function's own except clause receives it.  The task   *)
(* added to background_tasks runs once the response has been sent.         *)
GenerateResponse ==
    /\ pc = "generate_response"
    /\ IF data.kind = "bad_json"
       THEN /\ http_response' = ExceptClause("unbound")
            /\ logs' = logs
            /\ pc' = "responded"
            /\ UNCHANGED <<tasks, turn>>
       ELSE IF ValidateRequestData(data) = NoFields
       THEN /\ http_response' = ExceptClause("None")
            /\ logs' = Append(logs, IF data.kind = "object" THEN "Missing fields"
                                    ELSE "Validation error")
            /\ pc' = "responded"
            /\ UNCHANGED <<tasks, turn>>
       ELSE /\ tasks' = Append(tasks, ValidateRequestData(data))
            /\ http_response' = "success"
            /\ logs' = logs
            /\ turn' = ValidateRequestData(data)
            /\ pc' = "advance_convo"
    /\ UNCHANGED <<module, runs, run_response, function_args, tool_call_id, checks,
                   slept, run_status, extracted, ai_content, calls, switches, sent,
                   data>>

EndpointNext ==
    \/ GenerateResponse
    \/ AdvanceConvo
    \/ ProcessRunResponse
    \/ ListMessages
    \/ SendMessage
    \/ DecodeToolCall
    \/ SubmitToolOutputs
    \/ WaitForRun
    \/ DispatchAction
    \/ ChangeAssistant

EndpointSpec == EndpointInit /\ [][EndpointNext]_vars

----------------------------------------------------------------------------
(* Message delivery on its own: the first run of a turn came back          *)
(* completed, and the last message is any text over the alphabet.          *)

MessageInit ==
    /\ pc = "process_message_response"
    /\ module = "main"
    /\ turn \in Turns
    /\ runs = 1
    /\ run_response = [id |-> 1, status |-> "completed", tool_calls |-> <<>>]
    /\ function_args = NoArgs
    /\ tool_call_id = None
    /\ checks = 0
    /\ slept = 0
    /\ run_status = None
    /\ extracted = NoText
    /\ ai_content = NoText
    /\ calls = <<[op |-> "create_and_poll", run |-> 1, target |-> turn.thread_id,
                  arg |-> turn.assistant_id, resp |-> "completed", ok |-> TRUE]>>
    /\ switches = <<>>
    /\ sent = 0
    /\ logs = <<>>
    /\ data = DataOf(turn)
    /\ http_response = "success"
    /\ tasks = <<turn>>

MessageNext ==
    \/ ListAnyMessages
    \/ SendMessage

MessageSpec == MessageInit /\ [][MessageNext]_vars

----------------------------------------------------------------------------
(* end_bot on its own.  No code path of the turn reaches it (the dispatcher *)
(* calls the undefined end_demo), so it is driven directly with every       *)
(* argument triple.                                                         *)

EndBotInit ==
    /\ pc = "end_bot"
    /\ module = "actions"
    /\ turn \in Turns
    /\ runs = 0
    /\ run_response = NoRun
    /\ function_args \in ArgObjects
    /\ tool_call_id = None
    /\ checks = 0
    /\ slept = 0
    /\ run_status = None
    /\ extracted = NoText
    /\ ai_content = NoText
    /\ calls = <<>>
    /\ switches = <<>>
    /\ sent = 0
    /\ logs = <<>>
    /\ data = DataOf(turn)
    /\ http_response = "success"
    /\ tasks = <<turn>>

(* mc_api.remove_tag(manychat_id, "demo filter") *)
EndBotRemoveTag ==
    /\ pc = "end_bot"
    /\ \E resp \in Responses :
        /\ calls' = Append(calls,
                Call("remove_tag", turn.manychat_id, "demo filter", resp,
                     Request("POST", resp)))
        /\ logs' = IF Request("POST", resp) THEN logs
                   ELSE Append(logs, "Manychat API --- remove_tag Failed")
        /\ pc' = AfterRemoveTag(Request("POST", resp))
    /\ UNCHANGED <<module, turn, runs, run_response, function_args, tool_call_id,
                   checks, slept, run_status, extracted, ai_content, switches, sent>>
    /\ UNCHANGED <<data, http_response, tasks>>

(* mc_api.add_tag(manychat_id, "disable auto message") *)
EndBotAddTag ==
    /\ pc = "end_bot_add_tag"
    /\ \E resp \in Responses :
        /\ calls' = Append(calls,
                Call("add_tag", turn.manychat_id, "disable auto message", resp,
                     Request("POST", resp)))
        /\ logs' = IF Request("POST", resp) THEN logs
                   ELSE Append(logs, "Manychat API --- add_tag Failed")
    /\ pc' = "done"
    /\ UNCHANGED <<module, turn, runs, run_response, function_args, tool_call_id,
                   checks, slept, run_status, extracted, ai_content, switches, sent>>
    /\ UNCHANGED <<data, http_response, tasks>>

EndBotNext ==
    \/ EndBotRemoveTag
    \/ EndBotAddTag

EndBotSpec == EndBotInit /\ [][EndBotNext]_vars

----------------------------------------------------------------------------
(* The messaging client on its own: one operation of ManychatAPI is called  *)
(* for the subscriber and the remote API answers in any way.                *)

ClientOps == {"send_message", "send_audio", "add_tag", "remove_tag", "set_custom_field"}

ClientStatusCodes == {200, 201, 299, 302, 404, 500}

(* the body: JSON with status "success", with another status, without a   *)
(* status, JSON that is no object, or no JSON                             *)
ClientBodies == {"success", "error", "no_status", "not_object", "not_json"}

ClientResponses ==
    {[transport |-> "error", status_code |-> 0, body |-> "not_json"]}
    \cup [transport : {"ok"}, status_code : ClientStatusCodes, body : ClientBodies]

(* every operation of the client is a POST *)
Method(op) == "POST"

FailedLog(op) ==
    CASE op = "send_message" -> "Manychat API --- send_message Failed"
      [] op = "send_audio" -> "Manychat API --- send_audio Failed"
      [] op = "add_tag" -> "Manychat API --- add_tag Failed"
      [] op = "remove_tag" -> "Manychat API --- remove_tag Failed"
      [] op = "set_custom_field" -> "Manychat API --- set_custom_field Failed"

ClientInit ==
    /\ pc \in ClientOps
    /\ module = "actions"
    /\ turn \in Turns
    /\ runs = 0
    /\ run_response = NoRun
    /\ function_args = NoArgs
    /\ tool_call_id = None
    /\ checks = 0
    /\ slept = 0
    /\ run_status = None
    /\ extracted = NoText
    /\ ai_content = NoText
    /\ calls = <<>>
    /\ switches = <<>>
    /\ sent = 0
    /\ logs = <<>>
    /\ data = DataOf(turn)
    /\ http_response = "success"
    /\ tasks = <<turn>>

(* the operation named by pc: one client.request inside _request, whose   *)
(* result or exception decides what the operation returns                 *)
ClientRequest ==
    /\ pc \in ClientOps
    /\ \E resp \in ClientResponses :
        /\ calls' = Append(calls,
                Call(pc, turn.manychat_id, pc, resp, Request(Method(pc), resp)))
        /\ logs' = IF Request(Method(pc), resp) THEN logs
                   ELSE Append(logs, FailedLog(pc))
    /\ pc' = "done"
    /\ UNCHANGED <<module, turn, runs, run_response, function_args, tool_call_id,
                   checks, slept, run_status, extracted, ai_content, switches, sent>>
    /\ UNCHANGED <<data, http_response, tasks>>

ClientNext ==
    \/ ClientRequest

ClientSpec == ClientInit /\ [][ClientNext]_vars

----------------------------------------------------------------------------
(* Vocabulary of the properties *)

(* positions, among the calls made for the current run, of the calls of op *)
CallsOf(op) == {i \in DOMAIN calls : calls[i].op = op}

ExecutorOps == {"set_custom_field", "remove_tag", "add_tag"}

ErrorLogs ==
    {"advance_convo -- Unexpected error", "process_run_response -- Unexpected error",
     "Error processing AI message response", "No messages found in run response",
     "Error processing function response", "Function did not complete",
     "Unknown function response", "Manychat API --- send_message Failed",
     "Manychat API --- set_custom_field Failed", "Manychat API --- remove_tag Failed",
     "Manychat API --- add_tag Failed"}

FirstArgs(r) == r.tool_calls[1].arguments.obj

(* r is a requires_action run whose first tool call carries a scenario *)
AsksScenario(r) ==
    /\ r.status = "requires_action"
    /\ Len(r.tool_calls) >= 1
    /\ r.tool_calls[1].arguments.json_ok
    /\ "scenario" \in DOMAIN FirstArgs(r)

(* the registry maps s to a non-empty assistant id *)
HasMapping(s) == s \in RegistryKeys /\ AssistantMap(s) \notin {None, ""}

MappedRun(r) == AsksScenario(r) /\ HasMapping(FirstArgs(r).scenario)

UnmappedRun(r) == AsksScenario(r) /\ ~HasMapping(FirstArgs(r).scenario)

(* the acknowledgment of the current run was submitted without raising *)
AckSubmitted == \E i \in CallsOf("submit_tool_outputs") : calls[i].ok

(* a status check of the current run observed completed *)
WaitCompleted == \E i \in CallsOf("retrieve") : calls[i].resp = "completed"

(* the handling of the current run got as far as the action: run 1 is      *)
(* handled by main.py, which has no wait loop                              *)
ReachedExecutor == AckSubmitted /\ (runs = 1 \/ WaitCompleted)

(* the remote API answered 2xx with the embedded status "success" *)
Accepted(resp) ==
    /\ resp.transport = "ok"
    /\ resp.status_code \in 200..299
    /\ resp.body = "success"

----------------------------------------------------------------------------
(* C1, as claimed: a turn cannot end on a requires_action run whose first  *)
(* tool call names a mapped scenario: exactly one set_custom_field call    *)
(* was made for that run and a further run was started after it.           *)
C1_AsClaimed ==
    (pc = "done" /\ MappedRun(run_response)) =>
        /\ Cardinality(CallsOf("set_custom_field")) = 1
        /\ run_response.id < runs

(* C1, amended: for a run whose first tool call names a mapped scenario,   *)
(* set_custom_field(subscriber, "assistant_id", mapped id) is called at    *)
(* most once, only after the acknowledgment was accepted and (for a run    *)
(* started by a persona switch) the wait loop saw completed, and exactly   *)
(* once when the handling got that far; an accepted call is followed by    *)
(* exactly one new run, under the mapped id on the same thread, a failed   *)
(* call by nothing.                                                        *)
C1_SwitchStartsOneRun ==
    /\ \A i \in CallsOf("set_custom_field") :
        /\ i = Len(calls)
        /\ calls[i].target = turn.manychat_id
        /\ calls[i].arg.field = "assistant_id"
        /\ ReachedExecutor
        /\ MappedRun(run_response)
        /\ calls[i].arg.value = AssistantMap(FirstArgs(run_response).scenario)
        /\ calls[i].ok =>
            /\ pc = "advance_convo"
            /\ turn.assistant_id = calls[i].arg.value
            /\ turn.thread_id = calls[1].target
        /\ ~calls[i].ok => pc = "done"
    /\ (MappedRun(run_response) /\ ReachedExecutor
            /\ pc \in {"done", "advance_convo"}) =>
        Cardinality(CallsOf("set_custom_field")) = 1
    /\ runs >= 1 =>
        /\ CallsOf("create_and_poll") = {1}
        /\ calls[1].run = runs
        /\ calls[1].target = turn.thread_id
        /\ calls[1].arg = turn.assistant_id \/ pc = "advance_convo"
        /\ Len(switches) = runs - 1
    /\ runs >= 2 =>
        /\ switches[runs - 1].op = "set_custom_field"
        /\ switches[runs - 1].ok
        /\ switches[runs - 1].run = runs - 1
        /\ calls[1].arg = switches[runs - 1].arg.value
        /\ switches[runs - 1].target = turn.manychat_id

(* a second persona switch of the turn restarted the thread under mainMenu *)
C1_Witness ==
    /\ runs = 3
    /\ switches[2].arg.value = "asst_mainMenu"
    /\ calls[1].op = "create_and_poll"
    /\ calls[1].arg = "asst_mainMenu"

(* C2: while the current run is a requires_action run whose first tool     *)
(* call names a scenario that is no registry key, or a key whose assistant *)
(* id is unset or empty, no set_custom_field call is made for it and no    *)
(* new run is started; when the handling reached change_assistant the turn *)
(* ends with no error logged.                                              *)
C2_UnknownScenarioNoAction ==
    UnmappedRun(run_response) =>
        /\ CallsOf("set_custom_field") = {}
        /\ run_response.id = runs
        /\ pc # "advance_convo"
        /\ sent = 0
        /\ (pc = "done" /\ ReachedExecutor) =>
            \A k \in DOMAIN logs : logs[k] \notin ErrorLogs

(* a restarted run asked for an unknown scenario, was acknowledged and     *)
(* completed, and the turn ended                                           *)
C2_Witness ==
    /\ pc = "done"
    /\ runs = 2
    /\ UnmappedRun(run_response)
    /\ FirstArgs(run_response).scenario = "unknown-key"
    /\ ReachedExecutor

(* C3: a set_custom_field call that the remote API did not accept          *)
(* (transport error, non-2xx, body without status "success") is the last   *)
(* outbound call of the turn, and every run after the first was started    *)
(* right after an accepted set_custom_field call, under the id it set.     *)
C3_RestartOnlyAfterFieldSet ==
    /\ \A i \in CallsOf("set_custom_field") :
        ~Accepted(calls[i].resp) => (i = Len(calls) /\ pc = "done")
    /\ \A i \in CallsOf("create_and_poll") :
        /\ i = 1
        /\ calls[i].run > 1 =>
            /\ Len(switches) = calls[i].run - 1
            /\ switches[Len(switches)].op = "set_custom_field"
            /\ Accepted(switches[Len(switches)].resp)
            /\ switches[Len(switches)].arg.value = calls[i].arg
    /\ pc = "advance_convo" /\ runs >= 1 =>
        /\ calls[Len(calls)].op = "set_custom_field"
        /\ Accepted(calls[Len(calls)].resp)

(* set_custom_field was answered 200 with an embedded failure status in a  *)
(* restarted run                                                           *)
C3_Witness ==
    /\ pc = "done"
    /\ runs = 2
    /\ calls[Len(calls)].op = "set_custom_field"
    /\ calls[Len(calls)].resp.status_code = 200
    /\ calls[Len(calls)].resp.body = "error"

(* C4, as claimed: when a run whose first tool call carries endDemo or     *)
(* endBot (and no scenario) was acknowledged and seen completed by the     *)
(* wait loop, the turn does not end without a remove-tag and an add-tag    *)
(* call.                                                                   *)
C4_AsClaimed ==
    (/\ pc = "done"
     /\ run_response.status = "requires_action"
     /\ AckSubmitted
     /\ WaitCompleted
     /\ ("endDemo" \in DOMAIN function_args \/ "endBot" \in DOMAIN function_args)
     /\ "scenario" \notin DOMAIN function_args) =>
        /\ CallsOf("remove_tag") # {}
        /\ CallsOf("add_tag") # {}

(* C5: end_bot calls remove_tag and then add_tag for the subscriber,       *)
(* whatever either call returns: it ends only after both calls, in that    *)
(* order.                                                                  *)
C5_BothTagCallsAttempted ==
    /\ pc \in {"end_bot", "end_bot_add_tag", "done"}
    /\ pc = "end_bot" => calls = <<>>
    /\ pc = "end_bot_add_tag" => Len(calls) = 1
    /\ pc = "done" => Len(calls) = 2
    /\ Len(calls) >= 1 =>
        /\ calls[1].op = "remove_tag"
        /\ calls[1].target = turn.manychat_id
    /\ Len(calls) >= 2 =>
        /\ calls[2].op = "add_tag"
        /\ calls[2].target = turn.manychat_id

(* remove_tag failed on the transport and add_tag was still called *)
C5_Witness ==
    /\ pc = "done"
    /\ Len(calls) = 2
    /\ calls[1].op = "remove_tag"
    /\ calls[1].resp.transport = "error"
    /\ ~calls[1].ok
    /\ calls[2].op = "add_tag"
    /\ calls[2].ok

(* C6: the status checks of a run number `checks`, between 1 and 6; 5      *)
(* seconds were slept per check, 30 at most; a check that observed         *)
(* completed is the last check of its run and ends the loop.               *)
C6_StopsAtFirstCompleted ==
    /\ CallsOf("retrieve") # {} =>
        /\ Cardinality(CallsOf("retrieve")) = checks
        /\ checks \in 1..6
        /\ slept = 5 * checks
        /\ slept <= 30
    /\ \A i \in CallsOf("retrieve") : calls[i].resp = "completed" =>
        /\ \A j \in CallsOf("retrieve") : j <= i
        /\ pc # "wait_for_run"

(* completed was observed on the 3rd check and the loop was left *)
C6_Witness ==
    /\ pc = "dispatch_action"
    /\ checks = 3
    /\ slept = 15
    /\ calls[Len(calls)].op = "retrieve"
    /\ calls[Len(calls)].resp = "completed"
    /\ Cardinality(CallsOf("retrieve")) = 3

(* six status checks of the current run returned, none with completed *)
TimedOut ==
    /\ Cardinality(CallsOf("retrieve")) = 6
    /\ \A i \in CallsOf("retrieve") : calls[i].resp = "not_completed"

(* C7: a run is never checked more than 6 times; when 6 checks returned    *)
(* and none observed completed, the timeout is logged, the 6th check is    *)
(* the last outbound call of the turn, the turn has ended, no message was  *)
(* sent and no executor call was made for the run.                         *)
C7_TimeoutEndsTurnSilently ==
    /\ Cardinality(CallsOf("retrieve")) <= 6
    /\ TimedOut =>
        /\ pc = "done"
        /\ logs[Len(logs)] = "Function did not complete"
        /\ calls[Len(calls)].op = "retrieve"
        /\ sent = 0
        /\ CallsOf("send_message") = {}
        /\ \A op \in ExecutorOps : CallsOf(op) = {}

(* the wait loop saw failed on its 6th check *)
C7_Witness ==
    /\ pc = "done"
    /\ TimedOut
    /\ run_status = "failed"

(* C8, as claimed: every executor call of a run comes after an accepted    *)
(* acknowledgment of that run and after a status check of that run that    *)
(* observed completed.                                                     *)
C8_AsClaimed ==
    \A i \in DOMAIN calls : calls[i].op \in ExecutorOps =>
        \E j \in 1..(i - 1) : \E k \in 1..(i - 1) :
            /\ j < k
            /\ calls[j].op = "submit_tool_outputs"
            /\ calls[j].ok
            /\ calls[k].op = "retrieve"
            /\ calls[k].resp = "completed"

Count(s, c) == Cardinality({i \in 1..Len(s) : s[i] = c})

MessageSent == calls # <<>> /\ calls[Len(calls)].op = "send_message"

(* C9: when the extracted text holds one opening marker and one closing    *)
(* marker, the opening one first, the text handed to send_message is what  *)
(* precedes the opening marker followed by what follows the closing one.   *)
C9_CitationSpanStripped ==
    \A i \in 1..Len(extracted) : \A j \in 1..Len(extracted) :
        (/\ i < j
         /\ extracted[i] = OpenMarker
         /\ extracted[j] = CloseMarker
         /\ Count(extracted, OpenMarker) = 1
         /\ Count(extracted, CloseMarker) = 1) =>
            /\ pc = "send_message" =>
                ai_content = SubSeq(extracted, 1, i - 1)
                                \o SubSeq(extracted, j + 1, Len(extracted))
            /\ pc = "done" =>
                /\ MessageSent
                /\ calls[Len(calls)].target = turn.manychat_id
                /\ calls[Len(calls)].arg = SubSeq(extracted, 1, i - 1)
                                \o SubSeq(extracted, j + 1, Len(extracted))

(* "a[b]b" was delivered as "ab" *)
C9_Witness ==
    /\ pc = "done"
    /\ MessageSent
    /\ extracted = <<97, OpenMarker, 98, CloseMarker, 98>>
    /\ calls[Len(calls)].arg = <<97, 98>>

(* C10: when the extracted text lacks the opening marker or lacks the      *)
(* closing marker, the text handed to send_message is the extracted text.  *)
C10_NoMarkerPairUnchanged ==
    (~Contains(extracted, OpenMarker) \/ ~Contains(extracted, CloseMarker)) =>
        /\ pc = "send_message" => ai_content = extracted
        /\ MessageSent => calls[Len(calls)].arg = extracted

(* a text with an opening marker and no closing marker was delivered *)
C10_Witness ==
    /\ pc = "done"
    /\ MessageSent
    /\ extracted = <<97, OpenMarker, 98>>
    /\ calls[Len(calls)].arg = extracted

(* the status is none of the two that process_run_response dispatches on *)
OtherStatus(r) == r.status \in Statuses \ {"completed", "requires_action"}

(* C11: when run creation returned a run whose status is neither completed *)
(* nor requires_action, the creation stays the only outbound call made for *)
(* that run: no messaging call, no further AI-service call, no new run,    *)
(* no message sent, and nothing is left to do but end the turn.            *)
C11_OtherStatusEndsTurn ==
    OtherStatus(run_response) =>
        /\ Len(calls) = 1
        /\ calls[1].op = "create_and_poll"
        /\ run_response.id = runs
        /\ sent = 0
        /\ pc \in {"process_run_response", "done"}

(* the run started by a persona switch came back expired and the turn ended *)
C11_Witness ==
    /\ pc = "done"
    /\ runs = 2
    /\ run_response.status = "expired"
    /\ Len(calls) = 1

(* C12: when create_and_poll raised or returned nothing, it is the last    *)
(* outbound call of the turn: the error is logged by advance_convo, no     *)
(* message is sent and the turn has ended.                                 *)
C12_FailedCreateAbandonsTurn ==
    (calls # <<>> /\ calls[1].resp \in {"raised", "none"}) =>
        /\ Len(calls) = 1
        /\ calls[1].run = runs
        /\ logs = <<"advance_convo -- Unexpected error">>
        /\ sent = 0
        /\ pc = "done"

(* create_and_poll returned nothing for the run started by a persona switch *)
C12_Witness ==
    /\ pc = "done"
    /\ runs = 2
    /\ calls[1].op = "create_and_poll"
    /\ calls[1].resp = "none"

AiOps == {"create_and_poll", "messages.list", "submit_tool_outputs", "retrieve"}

(* the external call raised (for a messaging call: inside _request) *)
Raised(c) ==
    IF c.op \in AiOps THEN c.resp = "raised" ELSE c.resp.transport = "error"

Positions ==
    {"advance_convo", "process_run_response", "process_message_response",
     "send_message", "process_function_response", "submit_tool_outputs",
     "wait_for_run", "dispatch_action", "change_assistant", "done"}

(* C13: the background turn is always at one of its own positions or has   *)
(* returned: no exception is ever left unhandled.  An external call that   *)
(* raised, in whichever run of the chain, is the last outbound call of the *)
(* turn: the turn has returned, the last line logged is an error line and  *)
(* no message was delivered.                                               *)
C13_NoExceptionLeavesTheTurn ==
    /\ pc \in Positions
    /\ \A i \in DOMAIN calls : Raised(calls[i]) =>
        /\ i = Len(calls)
        /\ pc = "done"
        /\ logs # <<>>
        /\ logs[Len(logs)] \in ErrorLogs
        /\ \A j \in CallsOf("send_message") : ~Accepted(calls[j].resp)
        /\ sent = Cardinality(CallsOf("send_message"))

(* the status retrieval of the third run of a turn raised *)
C13_Witness ==
    /\ pc = "done"
    /\ runs = 3
    /\ calls[Len(calls)].op = "retrieve"
    /\ Raised(calls[Len(calls)])
    /\ logs[Len(logs)] = "Error processing function response"

(* C14: an operation of the messaging client makes exactly one remote call *)
(* and returns; it reports success exactly when the answer is 2xx with the *)
(* embedded status "success", and reports failure (logged) on a transport  *)
(* exception, a non-2xx status and an embedded non-success status.         *)
C14_OneCallBooleanContract ==
    /\ pc \in ClientOps \cup {"done"}
    /\ pc \in ClientOps => calls = <<>>
    /\ pc = "done" =>
        /\ Len(calls) = 1
        /\ calls[1].op \in ClientOps
        /\ calls[1].target = turn.manychat_id
        /\ calls[1].ok <=> Accepted(calls[1].resp)
        /\ calls[1].resp.transport = "error" => ~calls[1].ok
        /\ calls[1].resp.status_code \notin 200..299 => ~calls[1].ok
        /\ calls[1].resp.body # "success" => ~calls[1].ok
        /\ calls[1].ok => logs = <<>>
        /\ ~calls[1].ok => logs = <<FailedLog(calls[1].op)>>

(* send_audio was answered 200 with an embedded error status and reported  *)
(* failure                                                                 *)
C14_Witness ==
    /\ pc = "done"
    /\ calls[1].op = "send_audio"
    /\ calls[1].resp.status_code = 200
    /\ calls[1].resp.body = "error"
    /\ ~calls[1].ok

(* the body carries under key f a value that is neither null nor empty *)
HasUsable(d, f) ==
    \E i \in DOMAIN d.members :
        d.members[i].key = f /\ d.members[i].value \notin {None, ""}

(* some required field is absent, null or empty (a body that is no JSON    *)
(* object carries none of them)                                            *)
Incomplete(d) == \E f \in FieldNames : ~HasUsable(d, f)

(* every required field is there with its usable value *)
Complete(d) ==
    \A f \in FieldNames :
        \E i \in DOMAIN d.members :
            d.members[i].key = f /\ d.members[i].value = ValidValue(f)

(* C15: for a request body in which a required field is absent, null or    *)
(* empty, whichever field and in whatever member order, no background task *)
(* is ever scheduled: no run is created, no AI-service or messaging call   *)
(* is made, and the request ends at the response.                          *)
C15_IncompleteBodySchedulesNothing ==
    Incomplete(data) =>
        /\ tasks = <<>>
        /\ turn = NoFields
        /\ runs = 0
        /\ calls = <<>>
        /\ sent = 0
        /\ pc \in {"generate_response", "responded"}

(* a body in reverse member order that lacks only thread_id was rejected *)
C15_Witness ==
    /\ pc = "responded"
    /\ Len(data.members) = 3
    /\ data.members[1].key = "manychat_id"
    /\ \A i \in DOMAIN data.members :
        data.members[i].value = ValidValue(data.members[i].key)
    /\ tasks = <<>>

(* C16, as claimed: a request whose validation returned no fields is       *)
(* answered with the client error raised for it.                           *)
C16_AsClaimed ==
    (pc = "responded" /\ data.kind # "bad_json") => http_response = "client_error"

(* C17: for a body with the four usable fields the endpoint schedules      *)
(* exactly one background task, with those four fields, and answers        *)
(* success; no run is created and no call is made before the response,     *)
(* the first run is created for the scheduled fields, and the response     *)
(* stays success however the turn goes on and ends.                        *)
C17_ValidRequestAcknowledgedFirst ==
    /\ (Complete(data) /\ pc # "generate_response") =>
        /\ http_response = "success"
        /\ Len(tasks) = 1
        /\ \A f \in FieldNames : tasks[1][f] = ValidValue(f)
        /\ pc # "responded"
    /\ http_response = None =>
        /\ pc = "generate_response"
        /\ tasks = <<>>
        /\ runs = 0
        /\ calls = <<>>
        /\ sent = 0
    /\ (runs >= 1 \/ calls # <<>>) =>
        /\ http_response = "success"
        /\ Len(tasks) = 1
    /\ runs = 1 =>
        /\ calls[1].op = "create_and_poll"
        /\ calls[1].target = tasks[1].thread_id
        /\ calls[1].arg = tasks[1].assistant_id

(* a body in reverse member order was acknowledged with success, and the   *)
(* turn it scheduled ended on a failed run creation                        *)
C17_Witness ==
    /\ pc = "done"
    /\ http_response = "success"
    /\ Len(tasks) = 1
    /\ data.members[1].key = "manychat_id"
    /\ logs = <<"advance_convo -- Unexpected error">>

(* C18, as claimed: the turn that a persona switch re-enters has the       *)
(* thread, the subscriber and the filter tag of the turn the endpoint      *)
(* scheduled, and the assistant id the switch set.                         *)
C18_AsClaimed ==
    (pc = "advance_convo" /\ runs >= 1) =>
        /\ turn.thread_id = tasks[1].thread_id
        /\ turn.manychat_id = tasks[1].manychat_id
        /\ turn.bot_filter_tag = tasks[1].bot_filter_tag
        /\ turn.assistant_id = calls[Len(calls)].arg.value

(* the current run is a requires_action run that lists several tool calls *)
SeveralToolCalls ==
    /\ run_response.status = "requires_action"
    /\ Len(run_response.tool_calls) >= 2

(* positions of the executor calls among the calls of the current run *)
ExecutorCalls == {i \in DOMAIN calls : calls[i].op \in ExecutorOps}

(* C19, as claimed: a turn does not end on a run listing several tool      *)
(* calls without exactly one acknowledgment having been submitted for it.  *)
C19_AsClaimed ==
    (pc = "done" /\ SeveralToolCalls) =>
        Cardinality(CallsOf("submit_tool_outputs")) = 1

(* C19, amended: for a run listing several tool calls only the first is    *)
(* decoded; at most one acknowledgment is submitted, for the first call's  *)
(* id: exactly one once the first call's arguments decoded, none when they *)
(* do not decode; at most one executor call is made, and it acts on the    *)
(* first call's arguments; no other tool call is acknowledged or acted on. *)
C19_OnlyFirstToolCallHandled ==
    SeveralToolCalls =>
        /\ function_args \in {NoArgs, run_response.tool_calls[1].arguments.obj}
        /\ tool_call_id \in {None, run_response.tool_calls[1].id}
        /\ Cardinality(CallsOf("submit_tool_outputs")) <= 1
        /\ \A i \in CallsOf("submit_tool_outputs") :
            /\ calls[i].arg = run_response.tool_calls[1].id
            /\ \A k \in 2..Len(run_response.tool_calls) :
                calls[i].arg # run_response.tool_calls[k].id
        /\ (/\ run_response.tool_calls[1].arguments.json_ok
            /\ pc \notin {"process_run_response", "process_function_response",
                          "submit_tool_outputs"}) =>
                Cardinality(CallsOf("submit_tool_outputs")) = 1
        /\ ~run_response.tool_calls[1].arguments.json_ok =>
            /\ CallsOf("submit_tool_outputs") = {}
            /\ ExecutorCalls = {}
        /\ Cardinality(ExecutorCalls) <= 1
        /\ \A i \in ExecutorCalls :
            /\ calls[i].op = "set_custom_field"
            /\ AsksScenario(run_response)
            /\ calls[i].arg.value = AssistantMap(FirstArgs(run_response).scenario)

(* a run listed a switch to Italian and then a switch to mainMenu: one     *)
(* acknowledgment for call_1 was submitted and the subscriber was switched *)
(* to Italian only                                                         *)
C19_Witness ==
    /\ pc = "advance_convo"
    /\ runs >= 1
    /\ Len(run_response.tool_calls) = 2
    /\ FirstArgs(run_response).scenario = "Italian"
    /\ Cardinality(CallsOf("submit_tool_outputs")) = 1
    /\ calls[Len(calls)].op = "set_custom_field"
    /\ calls[Len(calls)].arg.value = "asst_Italian"

(* every run of the turn so far ended in an accepted persona switch, and   *)
(* the next run is about to be created; only the bound of the model keeps  *)
(* the chain from going on                                                 *)
ChainAtBound ==
    /\ pc = "advance_convo"
    /\ runs = MaxRuns
    /\ Len(switches) = MaxRuns - 1
    /\ \A i \in DOMAIN switches : Accepted(switches[i].resp)
    /\ calls[Len(calls)].op = "set_custom_field"
    /\ Accepted(calls[Len(calls)].resp)

(* C20: nothing in the turn counts persona switches: whenever a switch was *)
(* accepted the next run is about to be created, however many runs the     *)
(* turn has already made, and every earlier run of the turn ended in an    *)
(* accepted switch.  Every turn eventually ends, unless each of its runs   *)
(* led to an accepted switch (the chain then runs into the model's bound). *)
C20_EndsUnlessEverySwitchSucceeds ==
    /\ [](\A i \in CallsOf("set_custom_field") :
            Accepted(calls[i].resp) => (pc = "advance_convo" /\ runs <= MaxRuns))
    /\ [](/\ Len(switches) = (IF runs = 0 THEN 0 ELSE runs - 1)
          /\ \A i \in DOMAIN switches :
                switches[i].op = "set_custom_field" /\ Accepted(switches[i].resp))
    /\ <>(pc = "done" \/ ChainAtBound)

(* a turn whose every run asked for a mapped persona and was switched *)
C20_Witness ==
    /\ ChainAtBound
    /\ runs > 2
    /\ \A i \in DOMAIN switches : switches[i].run = i

(* positions, among the calls of the current run, of the set_custom_field  *)
(* calls the remote API accepted                                           *)
AcceptedSwitches == {i \in CallsOf("set_custom_field") : Accepted(calls[i].resp)}

(* C21: a turn makes at most one send_message call, over all its runs; the *)
(* call is made for a run that create_and_poll returned as completed, to   *)
(* the subscriber of the turn; it is the last outbound call of the turn,   *)
(* which has ended, whether the delivery succeeded or failed.  The runs    *)
(* created by the turn, counting the one about to be created, number one   *)
(* plus the accepted set_custom_field calls.                               *)
C21_OneSendEndsTurn ==
    /\ sent <= 1
    /\ sent = Cardinality(CallsOf("send_message"))
    /\ \A i \in CallsOf("send_message") :
        /\ i = Len(calls)
        /\ pc = "done"
        /\ run_response.status = "completed"
        /\ run_response.id = runs
        /\ calls[1].op = "create_and_poll"
        /\ calls[1].resp = "completed"
        /\ calls[i].target = turn.manychat_id
    /\ runs + (IF pc = "advance_convo" THEN 1 ELSE 0)
            = 1 + Len(switches) + Cardinality(AcceptedSwitches)
    /\ \A i \in DOMAIN switches :
        switches[i].op = "set_custom_field" /\ Accepted(switches[i].resp)
    /\ pc = "done" => (AcceptedSwitches = {} /\ runs = 1 + Len(switches))

(* after two persona switches the third run completed; its message could   *)
(* not be delivered (transport error) and the turn ended there             *)
C21_Witness ==
    /\ pc = "done"
    /\ runs = 3
    /\ Len(switches) = 2
    /\ sent = 1
    /\ calls[Len(calls)].op = "send_message"
    /\ calls[Len(calls)].resp.transport = "error"

(* t is s with the span from its first opening marker through a later      *)
(* closing marker taken out                                                *)
SpanRemoved(s, t) ==
    \E i \in 1..Len(s) : \E j \in i..Len(s) :
        /\ s[i] = OpenMarker
        /\ \A k \in 1..(i - 1) : s[k] # OpenMarker
        /\ s[j] = CloseMarker
        /\ t = SubSeq(s, 1, i - 1) \o SubSeq(s, j + 1, Len(s))

(* C22, as claimed: the text handed to send_message is the extracted text  *)
(* or the extracted text with one such span taken out, and is never longer *)
(* than the extracted text.                                                *)
C22_AsClaimed ==
    pc \in {"send_message", "done"} /\ extracted # NoText =>
        /\ ai_content = extracted \/ SpanRemoved(extracted, ai_content)
        /\ Len(ai_content) <= Len(extracted)

====
